---- MODULE Spec2Model ----
(***************************************************************************)
(* One Batch Sync pass of AutoSG2PL (src/SG2PL-Batchsync.py): the lambda   *)
(* handler mirrors the private addresses of a security group into a        *)
(* managed prefix list.  The prefix list is a remote resource with a       *)
(* capacity (MaxEntries), a version and a lifecycle state; every remote    *)
(* call of the handler is one step, interleaved with the steps of the      *)
(* remote service that settle a modification in progress.  Further         *)
(* specifications run the other functions of the solution on their own:    *)
(* the bulk initiator (src/SG2PL-BulkBatchInitiator.py), onboarding        *)
(* (src/SG2PL-Onboard.py) and the log handler.                             *)
(***************************************************************************)
EXTENDS Integers, Sequences, FiniteSets, TLC

(***************************************************************************)
(* Program constants.                                                      *)
(***************************************************************************)
\* entriestoremove[i:i + 99], entriestoadd[i:i + 99]
PageSize == 99
\* len(itemstoadd) < 100 and len(itemstoremove) < 100; ... > 100 or ... > 100
BulkLimit == 100
\* int(entry['Cidr'].split('/')[1]) == 32, ip + "/32"
HostMask == 32

(***************************************************************************)
(* Bounds of the model.                                                    *)
(***************************************************************************)
\* the prefix list's version when the pass starts is in 1..MaxInitVersion
MaxInitVersion == 1
\* the prefix list starts with 0..MaxOtherCidrs entries that are not a /32
MaxOtherCidrs == 1

\* a run holds at most MaxPasses passes, one after the other
MaxPasses == 2
\* modifications another invocation gets accepted while the pass runs
MaxOtherWrites == 1

\* sizes of the /32 part of the prefix list when the pass starts: O = 1..m
OSizes == {0, 1, 100, 101}
\* the membership read by get_ips_in_sg is an interval lo..hi (empty if lo > hi)
DLo == {1, 2, 100, 101, 102}
DHi == {0, 1, 22, 100, 101, 199, 200, 201}
DSets == {lo..hi : lo \in DLo, hi \in DHi}
\* MaxEntries of the prefix list when the pass starts
Capacities == {20, 100, 150, 250}
\* values returned by get_service_quota
Quotas == {25, 30, 200, 1000}
\* security_group_quota_padding_percentage
Paddings == {10, 30}
\* StateMessage of a prefix list in a failed state, and of one that is not
StateMessages == {"quota exceeded in a referencing group", "internal error"}
NoMessage == ""
\* the entries of the prefix list that are not a /32 (ignored by get_ips_in_pl)
OtherCidr(i) == <<1000 + i, 24>>

Fields == {"sg", "pl", "region"}

ReadyStates == {"create-complete", "modify-complete", "restore-complete"}
InProgressStates == {"create-in-progress", "modify-in-progress", "restore-in-progress"}
FailedStates == {"create-failed", "modify-failed", "restore-failed"}
DeleteStates == {"delete-in-progress", "delete-complete", "delete-failed"}
\* a state value the documentation does not list
UnknownStates == {"pending-upgrade"}
LifecycleStates == ReadyStates \cup InProgressStates \cup FailedStates
                     \cup DeleteStates \cup UnknownStates

VARIABLES
  \* the remote prefix list
  plCidrs,        \* its entries, each <<address, mask length>>
  plMaxEnt,       \* MaxEntries
  plVersion,      \* Version
  plState,        \* State
  plPending,      \* the accepted modification that is still in progress
  plStateMessage, \* StateMessage, the reason the resource gives for a failure
  \* the function's environment
  padding,        \* os.environ['security_group_quota_padding_percentage']
  \* the pass (locals of lambda_handler and of the functions it calls)
  pc,
  event,
  sgiplist,
  pliplist,
  itemstoadd,
  itemstoremove,
  newpllength,
  plinfo,
  currentquota,
  version,        \* the local `version` of remove_cidr_from_pl / add_cidr_to_pl
  pages,          \* the pages the running for-loop has not sent yet
  \* history of the pass
  calls,          \* every modify_managed_prefix_list call issued, in order
  alerts,         \* every SNS message published, in order
  polled,         \* a pl_ready poll returned True since the last mutating call
  seenVersion,    \* Version in the latest describe/modify response received
  reads,          \* the kinds of remote read the pass has performed
  \* the run
  pass,           \* the number of the pass (invocation) that is running
  prev,           \* how the previous pass ended
  otherWrites,    \* modifications of another invocation accepted so far
  \* what the pass has no business with
  mappings,       \* the configuration store: the (sg, pl, region) mappings
  otherList,      \* a prefix list other than the event's pl
  \* the bulk initiator (src/SG2PL-BulkBatchInitiator.py)
  invocations,    \* the payloads of lambdaclient.invoke(batchsyncfn), in order
  dpc,            \* the initiator's position
  dseen,          \* the parameters the paginator has returned so far
  dpage,          \* the parameters of the current page not yet invoked
  \* onboarding (src/SG2PL-Onboard.py)
  lists,          \* the prefix lists created by onboarding runs, in order
  ob,             \* the onboarding run: its position and its locals
  obRuns,         \* the number of onboarding runs started
  \* the log handler
  logs            \* the log_handler calls made, with their effects, in order

envVars == <<plCidrs, plMaxEnt, plVersion, plState, plPending, plStateMessage,
             padding>>
localVars == <<event, sgiplist, pliplist, itemstoadd, itemstoremove, newpllength,
               plinfo, currentquota, version, pages>>
histVars == <<calls, alerts, polled, seenVersion, reads>>
dispatchVars == <<dpc, dseen, dpage>>
onboardVars == <<lists, ob, obRuns>>
opsVars == <<invocations, dispatchVars, onboardVars, logs>>
outsideVars == <<mappings, otherList, opsVars>>
runVars == <<pass, prev, otherWrites, outsideVars>>
passVars == <<envVars, pc, localVars, histVars, pass, prev, otherWrites>>
vars == <<envVars, pc, localVars, histVars, runVars>>

(***************************************************************************)
(* Pure helpers of the handler.                                            *)
(***************************************************************************)
\* value = {'Cidr': ip + "/32"}
ToCidr(ip) == <<ip, HostMask>>
ToCidrs(ips) == {ToCidr(ip) : ip \in ips}

\* faulty variant: the mask is stripped from every entry, whatever its length
StripHostMask_NoFilter(cidrs) == {c[1] : c \in cidrs}

\* faulty variant: the mask test lets every mask up to 32 through
StripHostMask_UpTo32(cidrs) == {c[1] : c \in {d \in cidrs : d[2] <= HostMask}}

\* get_ips_in_pl: keep the /32 entries, strip the mask
StripHostMask(cidrs) == {c[1] : c \in {d \in cidrs : d[2] = HostMask}}

\* faulty variant: the membership is sent whole, the observed entries are not subtracted
ItemsToAdd_NoSubtract(sg, pl) == sg

\* itemstoadd = set(sgiplist) - set(pliplist)
ItemsToAdd(sg, pl) == sg \ pl
\* faulty variant: every observed entry is removed, the membership is not subtracted
ItemsToRemove_NoSubtract(sg, pl) == pl

\* itemstoremove = set(pliplist) - set(sgiplist)
ItemsToRemove(sg, pl) == pl \ sg
\* newpllength = len(pliplist) + len(itemstoadd) - len(itemstoremove)
NewPlLength(pl, add, rem) == Cardinality(pl) + Cardinality(add) - Cardinality(rem)

\* faulty variant: the quota check is off by one and lets finalSize = quota through
QuotaExceeded_OffByOne(q, n) == q - n < 0

\* if currentquota - newpllength < 1
QuotaExceeded(q, n) == q - n < 1

RECURSIVE Pow2Floor(_)
\* the largest power of two that is at most k (k >= 1)
Pow2Floor(k) == IF k < 2 THEN 1 ELSE 2 * Pow2Floor(k \div 2)

(***************************************************************************)
(* sgrulemaxutilizationpercentage = 1-(int(padding)/100) is an IEEE double.*)
(* In units of 2^-53/100 its distance below the rational (100-p)/100 is    *)
(* 40 for p = 30 (the double is 0.7 - 2^-50/20) and -20 for p = 10 (the    *)
(* double is 0.9 + 2^-51/20).                                              *)
(***************************************************************************)
RatioErr53(p) == CASE p = 10 -> -20
                   [] p = 30 -> 40

\* ceil(n / ((100-p)/100)) in exact arithmetic
CeilExact(n, p) == (n * 100 + (100 - p) - 1) \div (100 - p)

\* math.ceil(newplsize / sgrulemaxutilizationpercentage) in double arithmetic:
\* when the exact quotient is an integer k, the double quotient n / ratio is
\* above k iff the ratio's error outweighs half an ulp of k, and ceil gives k+1
CeilFloat(n, p) ==
  LET k == CeilExact(n, p)
  IN IF n > 0 /\ (n * 100) % (100 - p) = 0
        /\ RatioErr53(p) * k >= (100 - p) * Pow2Floor(k)
     THEN k + 1
     ELSE k

\* elif newpllength / currentquota > sgrulemaxutilizationpercentage
\* (the double comparison agrees with the rational one for p in Paddings)
OverThreshold(n, q, p) == n * 100 > (100 - p) * q

\* pl_resize: the clip of newmaxent to the quota
ClipToQuota(newmaxent, q) == IF newmaxent > q THEN q - 1 ELSE newmaxent
ResizeClipped(n, q, p) == CeilFloat(n, p) > q
\* pl_resize: the MaxEntries it requests
NewMaxEnt(n, q, p) == ClipToQuota(CeilFloat(n, p), q)

\* faulty variant: pages of 100 entries, the provider's limit, instead of 99
FirstPage_Hundred(S) == {x \in S : Cardinality({y \in S : y < x}) < PageSize + 1}

\* the first PageSize elements of a list built from the set S
FirstPage(S) == {x \in S : Cardinality({y \in S : y < x}) < PageSize}
\* faulty variant: the list is cut where only full pages end, the rest joins
\* the last page
Paginate_RestJoinsLast(S) ==
  IF S = {} THEN <<>>
  ELSE IF Cardinality(S) < 2 * PageSize THEN <<S>>
  ELSE <<FirstPage(S), S \ FirstPage(S)>>

RECURSIVE Paginate(_)
\* [entries[i:i + 99] for i in range(0, len(entries), 99)]
Paginate(S) == IF S = {} THEN <<>>
               ELSE <<FirstPage(S)>> \o Paginate(S \ FirstPage(S))

\* faulty variant: the bulk path is chosen on the sum of the two sizes
BulkPath_BySum(add, rem) ==
  /\ (Cardinality(add) > 0 \/ Cardinality(rem) > 0)
  /\ Cardinality(add) + Cardinality(rem) < BulkLimit

\* the bulk-update condition of lambda_handler
BulkPath(add, rem) ==
  /\ (Cardinality(add) > 0 \/ Cardinality(rem) > 0)
  /\ Cardinality(add) < BulkLimit
  /\ Cardinality(rem) < BulkLimit
\* the elif of lambda_handler: separate remove and add functions
PagedPath(add, rem) ==
  /\ ~BulkPath(add, rem)
  /\ (Cardinality(add) > 0 \/ Cardinality(rem) > 0)
  /\ (Cardinality(add) > BulkLimit \/ Cardinality(rem) > BulkLimit)

\* faulty variant: a deleted list is reported ready
PlReady_DeletedIsReady(st) ==
  CASE st \in {"create-complete", "modify-complete", "restore-complete",
               "delete-complete"} -> "ready"
    [] st \in {"modify-in-progress", "restore-in-progress"} -> "wait"
    [] st = "create-in-progress" -> "exit_silent"
    [] OTHER -> "exit_alert"

\* faulty variant: a list at rest after a modification is polled again
PlReady_CompleteWaits(st) ==
  CASE st \in {"create-complete", "restore-complete"} -> "ready"
    [] st \in {"modify-in-progress", "restore-in-progress", "modify-complete"} -> "wait"
    [] st = "create-in-progress" -> "exit_silent"
    [] OTHER -> "exit_alert"

\* pl_ready: True, False, or log_handler(..., terminate=True) with or without SNS
PlReady(st) ==
  CASE st = "create-in-progress" -> "exit_silent"
    [] st = "create-complete" -> "ready"
    [] st = "create-failed" -> "exit_alert"
    [] st = "modify-in-progress" -> "wait"
    [] st = "modify-complete" -> "ready"
    [] st = "modify-failed" -> "exit_alert"
    [] st = "restore-in-progress" -> "wait"
    [] st = "restore-complete" -> "ready"
    [] st = "restore-failed" -> "exit_alert"
    [] st = "delete-in-progress" -> "exit_alert"
    [] st = "delete-complete" -> "exit_alert"
    [] st = "delete-failed" -> "exit_alert"
    [] OTHER -> "exit_alert"

\* the pages of one remove/add function, each page a set of /32 entries
PaginateCidrs(ips) == [i \in DOMAIN Paginate(ips) |-> ToCidrs(Paginate(ips)[i])]

(***************************************************************************)
(* log_handler(message, severity, sendmessage, terminate).                 *)
(***************************************************************************)
\* sns.publish(Message=message) when sendmessage is set; text is the part of
\* the message that is quoted from the resource
PublishedText(log, severity, what, text, sendmessage) ==
  IF sendmessage
  THEN Append(log, [severity |-> severity, what |-> what, text |-> text])
  ELSE log

Published(log, severity, what, sendmessage) ==
  PublishedText(log, severity, what, NoMessage, sendmessage)

\* faulty variant: the failure is reported without the resource's reason
StateText_Omitted(st, msg) == NoMessage

\* pl_ready: the messages of the fatal states; the one for modify-failed ends
\* with str(plinfodata['PrefixLists'][0]['StateMessage'])
StateText(st, msg) == IF st = "modify-failed" THEN msg ELSE NoMessage

(***************************************************************************)
(* The remote service.                                                     *)
(***************************************************************************)
NoPending == [add |-> {}, rem |-> {}, maxent |-> 0]

\* whether modify_managed_prefix_list(CurrentVersion=ver, AddEntries=add,
\* RemoveEntries=rem, MaxEntries=maxent) is accepted: ver = 0 stands for a call
\* without CurrentVersion, maxent = 0 for a call without MaxEntries
RemoteAccepts(ver, add, rem, maxent) ==
  /\ plState \in ReadyStates
  /\ ver = 0 \/ ver = plVersion
  /\ Cardinality((plCidrs \ rem) \cup add)
        <= (IF maxent = 0 THEN plMaxEnt ELSE maxent)

\* faulty variant: the call also reaches the other prefix list
Modify_AlsoOtherList(kind, ver, add, rem, maxent, ok, log) ==
  /\ calls' = Append(calls, [kind |-> kind, ver |-> ver, add |-> add, rem |-> rem,
                             maxent |-> maxent, polled |-> polled,
                             seen |-> seenVersion, cur |-> plVersion,
                             state |-> plState, ok |-> ok])
  /\ polled' = FALSE
  /\ alerts' = IF ok THEN log ELSE Published(log, 3, "call-error", TRUE)
  /\ IF ok
     THEN /\ plState' = "modify-in-progress"
          /\ plPending' = [add |-> add, rem |-> rem, maxent |-> maxent]
          /\ seenVersion' = plVersion
          /\ otherList' = [otherList EXCEPT !.Version = 1 + otherList.Version]
     ELSE UNCHANGED <<plState, plPending, seenVersion, otherList>>
  /\ UNCHANGED <<plCidrs, plMaxEnt, plVersion, plStateMessage, padding, reads, pass,
                 prev, otherWrites, mappings, opsVars>>

\* one modify_managed_prefix_list call and its effect on the remote list and on
\* the history; an accepted call leaves the list in modify-in-progress and
\* answers with the list's present version
Modify(kind, ver, add, rem, maxent, ok, log) ==
  /\ calls' = Append(calls, [kind |-> kind, ver |-> ver, add |-> add, rem |-> rem,
                             maxent |-> maxent, polled |-> polled,
                             seen |-> seenVersion, cur |-> plVersion,
                             state |-> plState, ok |-> ok])
  /\ polled' = FALSE
  /\ alerts' = IF ok THEN log ELSE Published(log, 3, "call-error", TRUE)
  /\ IF ok
     THEN /\ plState' = "modify-in-progress"
          /\ plPending' = [add |-> add, rem |-> rem, maxent |-> maxent]
          /\ seenVersion' = plVersion
     ELSE UNCHANGED <<plState, plPending, seenVersion>>
  /\ UNCHANGED <<plCidrs, plMaxEnt, plVersion, plStateMessage, padding, reads,
                 runVars>>

\* the modification in progress lands: the entries and the capacity change and
\* the version advances; a creation or a restore in progress completes
EnvComplete ==
  /\ plState \in InProgressStates
  /\ IF plState = "modify-in-progress"
     THEN /\ plCidrs' = (plCidrs \ plPending.rem) \cup plPending.add
          /\ plMaxEnt' = IF plPending.maxent = 0 THEN plMaxEnt ELSE plPending.maxent
          /\ plVersion' = plVersion + 1
          /\ plState' = "modify-complete"
     ELSE /\ plState' = IF plState = "create-in-progress" THEN "create-complete"
                                                          ELSE "restore-complete"
          /\ UNCHANGED <<plCidrs, plMaxEnt, plVersion>>
  /\ plPending' = NoPending
  /\ UNCHANGED <<plStateMessage, padding, pc, localVars, histVars, runVars>>

\* the operation in progress fails: the list is left as it was, and the
\* resource states a reason
EnvFail ==
  /\ plState \in InProgressStates
  /\ plState' = CASE plState = "create-in-progress" -> "create-failed"
                  [] plState = "modify-in-progress" -> "modify-failed"
                  [] OTHER -> "restore-failed"
  /\ plStateMessage' \in StateMessages
  /\ plPending' = NoPending
  /\ UNCHANGED <<plCidrs, plMaxEnt, plVersion, padding, pc, localVars, histVars,
                 runVars>>

\* before the first pass of a run there is no previous pass
NoPrev == [pc |-> "none", calls |-> 0, applied |-> FALSE, resized |-> FALSE,
           membership |-> FALSE]

\* the initiator has not been started
DispatchIdle ==
  /\ invocations = <<>>
  /\ dpc = "idle"
  /\ dseen = {}
  /\ dpage = {}

\* no onboarding run: the locals of lambda_handler and create_prefixlist, and
\* whether the pair had its mapping when the run was invoked
NoOnboard == [pc |-> "none", sg |-> "", region |-> "", had |-> FALSE, cidrs |-> {},
              pllen |-> 0, plcreate |-> ""]

OnboardIdle ==
  /\ lists = <<>>
  /\ ob = NoOnboard
  /\ obRuns = 0

\* the other functions of the solution are not running
OpsIdle == DispatchIdle /\ OnboardIdle /\ logs = <<>>

(***************************************************************************)
(* The pass.                                                               *)
(***************************************************************************)
Init ==
  /\ \E m \in OSizes, k \in 0..MaxOtherCidrs :
        plCidrs = ToCidrs(1..m) \cup {OtherCidr(i) : i \in 1..k}
  /\ plMaxEnt \in {c \in Capacities : c >= Cardinality(plCidrs)}
  /\ plVersion \in 1..MaxInitVersion
  /\ plState \in LifecycleStates
  /\ plStateMessage \in (IF plState \in FailedStates THEN StateMessages
                                                     ELSE {NoMessage})
  /\ plPending = NoPending
  /\ padding \in Paddings
  /\ pc = "start"
  /\ event = {}
  /\ sgiplist = {}
  /\ pliplist = {}
  /\ itemstoadd = {}
  /\ itemstoremove = {}
  /\ newpllength = 0
  /\ plinfo = [MaxEnt |-> 0, Version |-> 0]
  /\ currentquota = 0
  /\ version = 0
  /\ pages = <<>>
  /\ calls = <<>>
  /\ alerts = <<>>
  /\ polled = FALSE
  /\ seenVersion = 0
  /\ reads = {}
  /\ pass = 1
  /\ prev = NoPrev
  /\ otherWrites = 0
  /\ mappings = {<<"sg", "pl", "region">>, <<"sg-other", "pl-other", "region">>}
  /\ otherList = [Cidrs |-> {OtherCidr(0)}, Version |-> 1]
  /\ OpsIdle

\* faulty variant: the region key is not checked
Invoke_NoRegionCheck ==
  /\ pc = "start"
  /\ \E ev \in SUBSET Fields :
       /\ event' = ev
       /\ IF {"sg", "pl"} \subseteq ev
          THEN /\ pc' = "get_ips_in_sg"
               /\ alerts' = alerts
          ELSE /\ pc' = "exit"
               /\ alerts' = Published(alerts, 3,
                              IF "sg" \notin ev THEN "no-sg" ELSE "no-pl", TRUE)
  /\ UNCHANGED <<envVars, sgiplist, pliplist, itemstoadd, itemstoremove, newpllength,
                 plinfo, currentquota, version, pages, calls, polled, seenVersion,
                 reads, runVars>>

\* lambda_handler, the three checks of the event's keys
Invoke ==
  /\ pc = "start"
  /\ \E ev \in SUBSET Fields :
       /\ event' = ev
       /\ IF Fields \subseteq ev
          THEN /\ pc' = "get_ips_in_sg"
               /\ alerts' = alerts
          ELSE /\ pc' = "exit"
               /\ alerts' = Published(alerts, 3,
                              IF "sg" \notin ev THEN "no-sg"
                              ELSE IF "pl" \notin ev THEN "no-pl" ELSE "no-region",
                              TRUE)
  /\ UNCHANGED <<envVars, sgiplist, pliplist, itemstoadd, itemstoremove, newpllength,
                 plinfo, currentquota, version, pages, calls, polled, seenVersion,
                 reads, runVars>>

\* sgiplist = get_ips_in_sg(sg); the membership does not change during a run
GetIpsInSg ==
  /\ pc = "get_ips_in_sg"
  /\ sgiplist' \in (IF prev.membership THEN {sgiplist} ELSE DSets)
  /\ reads' = reads \cup {"membership"}
  /\ pc' = "get_ips_in_pl"
  /\ UNCHANGED <<envVars, event, pliplist, itemstoadd, itemstoremove, newpllength,
                 plinfo, currentquota, version, pages, calls, alerts, polled,
                 seenVersion, runVars>>

\* pliplist = get_ips_in_pl(pl, ec2remote), then the two set differences and
\* the new length
GetIpsInPl ==
  /\ pc = "get_ips_in_pl"
  /\ pliplist' = StripHostMask(plCidrs)
  /\ itemstoadd' = ItemsToAdd(sgiplist, pliplist')
  /\ itemstoremove' = ItemsToRemove(sgiplist, pliplist')
  /\ newpllength' = NewPlLength(pliplist', itemstoadd', itemstoremove')
  /\ reads' = reads \cup {"entries"}
  /\ pc' = "pl_info"
  /\ UNCHANGED <<envVars, event, sgiplist, plinfo, currentquota, version, pages,
                 calls, alerts, polled, seenVersion, runVars>>

\* plinfo = pl_info(pl, ec2remote)
PlInfo ==
  /\ pc = "pl_info"
  /\ plinfo' = [MaxEnt |-> plMaxEnt, Version |-> plVersion]
  /\ seenVersion' = plVersion
  /\ reads' = reads \cup {"metadata"}
  /\ pc' = "get_quota"
  /\ UNCHANGED <<envVars, event, sgiplist, pliplist, itemstoadd, itemstoremove,
                 newpllength, currentquota, version, pages, calls, alerts, polled,
                 runVars>>

\* faulty variant: the bulk update is sent even when there is nothing to update
Branch_EmptyDiffBulk(maxent, n, add, rem) ==
  IF maxent < n THEN "pl_resize"
  ELSE IF PagedPath(add, rem)
       THEN (IF Cardinality(rem) > 0 THEN "rm_wait" ELSE "add_wait")
  ELSE "bulk_wait"

\* faulty variant: the capacity is not compared with the new length
Branch_NoResize(maxent, n, add, rem) ==
  IF BulkPath(add, rem) THEN "bulk_wait"
  ELSE IF PagedPath(add, rem)
       THEN (IF Cardinality(rem) > 0 THEN "rm_wait" ELSE "add_wait")
  ELSE "done"

\* faulty variant: the paginated path starts with the adds
Branch_AddsFirst(maxent, n, add, rem) ==
  IF maxent < n THEN "pl_resize"
  ELSE IF BulkPath(add, rem) THEN "bulk_wait"
  ELSE IF PagedPath(add, rem)
       THEN (IF Cardinality(add) > 0 THEN "add_wait" ELSE "rm_wait")
  ELSE "done"

\* where lambda_handler goes after the quota checks
Branch(maxent, n, add, rem) ==
  IF maxent < n THEN "pl_resize"
  ELSE IF BulkPath(add, rem) THEN "bulk_wait"
  ELSE IF PagedPath(add, rem)
       THEN (IF Cardinality(rem) > 0 THEN "rm_wait" ELSE "add_wait")
  ELSE "done"

\* faulty variant: the threshold warning terminates the pass
GetQuota_ThresholdIsFatal ==
  /\ pc = "get_quota"
  /\ currentquota' \in Quotas
  /\ reads' = reads \cup {"quota"}
  /\ IF QuotaExceeded(currentquota', newpllength)
     THEN /\ alerts' = Published(alerts, 3, "quota", TRUE)
          /\ pc' = "exit"
     ELSE IF OverThreshold(newpllength, currentquota', padding)
     THEN /\ alerts' = Published(alerts, 3, "threshold", TRUE)
          /\ pc' = "exit"
     ELSE /\ alerts' = alerts
          /\ pc' = Branch(plinfo.MaxEnt, newpllength, itemstoadd, itemstoremove)
  /\ UNCHANGED <<envVars, event, sgiplist, pliplist, itemstoadd, itemstoremove,
                 newpllength, plinfo, version, pages, calls, polled, seenVersion,
                 runVars>>

\* currentquota = get_sg_max_entries_quota_value(sqremote), the quota check and
\* the threshold warning
GetQuota ==
  /\ pc = "get_quota"
  /\ currentquota' \in Quotas
  /\ reads' = reads \cup {"quota"}
  /\ IF QuotaExceeded(currentquota', newpllength)
     THEN /\ alerts' = Published(alerts, 3, "quota", TRUE)
          /\ pc' = "exit"
     ELSE /\ alerts' = IF OverThreshold(newpllength, currentquota', padding)
                       THEN Published(alerts, 3, "threshold", TRUE)
                       ELSE alerts
          /\ pc' = Branch(plinfo.MaxEnt, newpllength, itemstoadd, itemstoremove)
  /\ UNCHANGED <<envVars, event, sgiplist, pliplist, itemstoadd, itemstoremove,
                 newpllength, plinfo, version, pages, calls, polled, seenVersion,
                 runVars>>

\* one pl_ready call of a wait loop: leave the loop, poll again after the
\* sleep, or terminate
Poll(here, next) ==
  /\ pc = here
  /\ seenVersion' = plVersion
  /\ reads' = reads \cup {"state"}
  /\ CASE PlReady(plState) = "ready" ->
            /\ pc' = next
            /\ polled' = TRUE
            /\ alerts' = alerts
       [] PlReady(plState) = "wait" ->
            /\ pc' = here
            /\ polled' = polled
            /\ alerts' = alerts
       [] PlReady(plState) = "exit_alert" ->
            /\ pc' = "exit"
            /\ polled' = polled
            /\ alerts' = PublishedText(alerts, 3, plState,
                                       StateText(plState, plStateMessage), TRUE)
       [] OTHER ->
            /\ pc' = "exit"
            /\ polled' = polled
            /\ alerts' = Published(alerts, 3, plState, FALSE)
  /\ UNCHANGED <<envVars, localVars, calls, runVars>>

\* faulty variant: success is reported as soon as the resize call has returned
PlResize_NoWait ==
  /\ pc = "pl_resize"
  /\ \E err \in BOOLEAN :
       LET maxent == NewMaxEnt(newpllength, currentquota, padding)
           ok == ~err /\ RemoteAccepts(0, {}, {}, maxent)
           log == Published(alerts, 2, "clipped",
                            ResizeClipped(newpllength, currentquota, padding))
       IN /\ Modify("resize", 0, {}, {}, maxent, ok, log)
          /\ pc' = IF ok THEN "done" ELSE "exit"
  /\ UNCHANGED localVars

\* pl_resize(pl, currentquota, newpllength, ec2remote)
PlResize ==
  /\ pc = "pl_resize"
  /\ \E err \in BOOLEAN :
       LET maxent == NewMaxEnt(newpllength, currentquota, padding)
           ok == ~err /\ RemoteAccepts(0, {}, {}, maxent)
           log == Published(alerts, 2, "clipped",
                            ResizeClipped(newpllength, currentquota, padding))
       IN /\ Modify("resize", 0, {}, {}, maxent, ok, log)
          /\ pc' = IF ok THEN "resize_wait" ELSE "exit"
  /\ UNCHANGED localVars

\* faulty variant: the entries are updated once the resize has landed
ResizeWait_ThenBulk == Poll("resize_wait", "bulk_wait")

\* the wait loop after pl_resize
ResizeWait == Poll("resize_wait", "done")

\* the wait loop before the bulk update
BulkWait == Poll("bulk_wait", "bulk_call")

\* faulty variant: a refused bulk call is sent again with the version re-read
BulkCall_RetryAfterRefresh ==
  /\ pc = "bulk_call"
  /\ \E err \in BOOLEAN :
       LET add == ToCidrs(itemstoadd)
           rem == ToCidrs(itemstoremove)
           ok == ~err /\ RemoteAccepts(plinfo.Version, add, rem, 0)
       IN /\ Modify("bulk", plinfo.Version, add, rem, 0, ok, alerts)
          /\ pc' = IF ok THEN "done" ELSE "bulk_wait"
          /\ plinfo' = IF ok THEN plinfo ELSE [plinfo EXCEPT !.Version = plVersion]
  /\ UNCHANGED <<event, sgiplist, pliplist, itemstoadd, itemstoremove, newpllength,
                 currentquota, version, pages>>

\* faulty variant: the bulk call is sent without CurrentVersion
BulkCall_NoVersion ==
  /\ pc = "bulk_call"
  /\ \E err \in BOOLEAN :
       LET add == ToCidrs(itemstoadd)
           rem == ToCidrs(itemstoremove)
           ok == ~err /\ RemoteAccepts(0, add, rem, 0)
       IN /\ Modify("bulk", 0, add, rem, 0, ok, alerts)
          /\ pc' = IF ok THEN "done" ELSE "exit"
  /\ UNCHANGED localVars

\* update_cidrs_in_pl(pl, itemstoremove, itemstoadd, plinfo['Version'], ec2remote)
BulkCall ==
  /\ pc = "bulk_call"
  /\ \E err \in BOOLEAN :
       LET add == ToCidrs(itemstoadd)
           rem == ToCidrs(itemstoremove)
           ok == ~err /\ RemoteAccepts(plinfo.Version, add, rem, 0)
       IN /\ Modify("bulk", plinfo.Version, add, rem, 0, ok, alerts)
          /\ pc' = IF ok THEN "done" ELSE "exit"
  /\ UNCHANGED localVars

\* the wait loop before remove_cidr_from_pl
RmWait == Poll("rm_wait", "rm_enter")

\* remove_cidr_from_pl(pl, itemstoremove, plinfo['Version'], ec2remote): the
\* entries and their pages
RmEnter ==
  /\ pc = "rm_enter"
  /\ version' = plinfo.Version
  /\ pages' = PaginateCidrs(itemstoremove)
  /\ pc' = "rm_page_wait"
  /\ UNCHANGED <<envVars, event, sgiplist, pliplist, itemstoadd, itemstoremove,
                 newpllength, plinfo, currentquota, histVars, runVars>>

\* remove_cidr_from_pl, the wait loop of one page
RmPageWait == Poll("rm_page_wait", "rm_page_info")

\* faulty variant: the page is sent with the version the function already holds
RmPageInfo_KeepVersion ==
  /\ pc = "rm_page_info"
  /\ pc' = "rm_page_call"
  /\ UNCHANGED <<envVars, localVars, histVars, runVars>>

\* remove_cidr_from_pl: version = pl_info(pl, ec2remote)['Version']
RmPageInfo ==
  /\ pc = "rm_page_info"
  /\ version' = plVersion
  /\ seenVersion' = plVersion
  /\ reads' = reads \cup {"metadata"}
  /\ pc' = "rm_page_call"
  /\ UNCHANGED <<envVars, event, sgiplist, pliplist, itemstoadd, itemstoremove,
                 newpllength, plinfo, currentquota, pages, calls, alerts, polled,
                 runVars>>

\* faulty variant: a page the remote refuses is skipped
RmPageCall_SkipFailed ==
  /\ pc = "rm_page_call"
  /\ \E err \in BOOLEAN :
       LET ok == ~err /\ RemoteAccepts(version, {}, Head(pages), 0)
       IN /\ Modify("remove", version, {}, Head(pages), 0, ok, alerts)
          /\ pc' = IF Tail(pages) # <<>> THEN "rm_page_wait"
                   ELSE IF Cardinality(itemstoadd) > 0 THEN "add_wait"
                   ELSE "done"
          /\ pages' = Tail(pages)
          /\ version' = IF ok THEN plVersion ELSE version
  /\ UNCHANGED <<event, sgiplist, pliplist, itemstoadd, itemstoremove, newpllength,
                 plinfo, currentquota>>

\* remove_cidr_from_pl: modify_managed_prefix_list(RemoveEntries=page)
RmPageCall ==
  /\ pc = "rm_page_call"
  /\ \E err \in BOOLEAN :
       LET ok == ~err /\ RemoteAccepts(version, {}, Head(pages), 0)
       IN /\ Modify("remove", version, {}, Head(pages), 0, ok, alerts)
          /\ pc' = IF ~ok THEN "exit"
                   ELSE IF Tail(pages) # <<>> THEN "rm_page_wait"
                   ELSE IF Cardinality(itemstoadd) > 0 THEN "add_wait"
                   ELSE "done"
          /\ pages' = IF ok THEN Tail(pages) ELSE pages
          /\ version' = IF ok THEN plVersion ELSE version
  /\ UNCHANGED <<event, sgiplist, pliplist, itemstoadd, itemstoremove, newpllength,
                 plinfo, currentquota>>

\* the wait loop before add_cidr_to_pl
AddWait == Poll("add_wait", "add_enter")

\* add_cidr_to_pl(pl, itemstoadd, pl_info(pl, ec2remote)['Version'], ec2remote):
\* the argument's pl_info call, the entries and their pages
AddEnter ==
  /\ pc = "add_enter"
  /\ version' = plVersion
  /\ seenVersion' = plVersion
  /\ pages' = PaginateCidrs(itemstoadd)
  /\ reads' = reads \cup {"metadata"}
  /\ pc' = "add_page_wait"
  /\ UNCHANGED <<envVars, event, sgiplist, pliplist, itemstoadd, itemstoremove,
                 newpllength, plinfo, currentquota, calls, alerts, polled, runVars>>

\* add_cidr_to_pl, the wait loop of one page
AddPageWait == Poll("add_page_wait", "add_page_info")

\* add_cidr_to_pl: version = pl_info(pl, ec2remote)['Version']
AddPageInfo ==
  /\ pc = "add_page_info"
  /\ version' = plVersion
  /\ seenVersion' = plVersion
  /\ reads' = reads \cup {"metadata"}
  /\ pc' = "add_page_call"
  /\ UNCHANGED <<envVars, event, sgiplist, pliplist, itemstoadd, itemstoremove,
                 newpllength, plinfo, currentquota, pages, calls, alerts, polled,
                 runVars>>

\* add_cidr_to_pl: modify_managed_prefix_list(AddEntries=page)
AddPageCall ==
  /\ pc = "add_page_call"
  /\ \E err \in BOOLEAN :
       LET ok == ~err /\ RemoteAccepts(version, Head(pages), {}, 0)
       IN /\ Modify("add", version, Head(pages), {}, 0, ok, alerts)
          /\ pc' = IF ~ok THEN "exit"
                   ELSE IF Tail(pages) # <<>> THEN "add_page_wait"
                   ELSE "done"
          /\ pages' = IF ok THEN Tail(pages) ELSE pages
          /\ version' = IF ok THEN plVersion ELSE version
  /\ UNCHANGED <<event, sgiplist, pliplist, itemstoadd, itemstoremove, newpllength,
                 plinfo, currentquota>>

Next ==
  \/ Invoke
  \/ GetIpsInSg
  \/ GetIpsInPl
  \/ PlInfo
  \/ GetQuota
  \/ PlResize
  \/ ResizeWait
  \/ BulkWait
  \/ BulkCall
  \/ RmWait
  \/ RmEnter
  \/ RmPageWait
  \/ RmPageInfo
  \/ RmPageCall
  \/ AddWait
  \/ AddEnter
  \/ AddPageWait
  \/ AddPageInfo
  \/ AddPageCall
  \/ EnvComplete
  \/ EnvFail

Spec == Init /\ [][Next]_vars

(***************************************************************************)
(* The pass keeps running: lambda_handler goes on to its next statement.   *)
(***************************************************************************)
\* the steps of lambda_handler and of the functions it calls, but for the
\* entry into add_cidr_to_pl
PassStep ==
  \/ Invoke \/ GetIpsInSg \/ GetIpsInPl \/ PlInfo \/ GetQuota
  \/ PlResize \/ ResizeWait
  \/ BulkWait \/ BulkCall
  \/ RmWait \/ RmEnter \/ RmPageWait \/ RmPageInfo \/ RmPageCall
  \/ AddWait \/ AddPageWait \/ AddPageInfo \/ AddPageCall

\* the entry into add_cidr_to_pl seen from the position of the pass: AddEnter
\* is enabled exactly at "add_enter" and is the only step that leaves it
AddEnterMove == pc = "add_enter" /\ pc' = "add_page_wait"

\* the pass starts with the list at rest or with an operation in progress
InitLive ==
  /\ Init
  /\ plState \in InProgressStates \cup {"modify-complete"}
  /\ \A c \in plCidrs : c[2] = HostMask

SpecLive ==
  /\ InitLive
  /\ [][Next]_vars
  /\ WF_vars(PassStep)
  /\ WF_pc(AddEnterMove)

(***************************************************************************)
(* The run: the initiator invokes the pass again for the same mapping.     *)
(***************************************************************************)
\* the calls of the pass that carry entries
EntryCallIds == {i \in DOMAIN calls : calls[i].kind \in {"bulk", "remove", "add"}}

\* run_update: lambdaclient.invoke(FunctionName=batchsyncfn, Payload=payload) for
\* a mapping whose earlier invocation has ended; the new invocation starts with
\* fresh locals, and the group's membership is the one of the earlier pass
Rerun ==
  /\ pc \in {"done", "exit"}
  /\ pass < MaxPasses
  /\ pass' = pass + 1
  /\ prev' = [pc |-> pc, calls |-> Len(calls),
              applied |-> /\ pc = "done"
                          /\ EntryCallIds # {}
                          /\ plState = "modify-complete"
                          /\ plPending = NoPending,
              resized |-> /\ pc = "done"
                          /\ \E i \in DOMAIN calls : calls[i].kind = "resize"
                          /\ plState = "modify-complete"
                          /\ plPending = NoPending,
              membership |-> prev.membership \/ "membership" \in reads]
  /\ pc' = "start"
  /\ event' = {}
  /\ pliplist' = {}
  /\ itemstoadd' = {}
  /\ itemstoremove' = {}
  /\ newpllength' = 0
  /\ plinfo' = [MaxEnt |-> 0, Version |-> 0]
  /\ currentquota' = 0
  /\ version' = 0
  /\ pages' = <<>>
  /\ calls' = <<>>
  /\ alerts' = <<>>
  /\ polled' = FALSE
  /\ seenVersion' = 0
  /\ reads' = {}
  /\ UNCHANGED <<envVars, sgiplist, otherWrites, outsideVars>>

\* the run starts with the list at rest
InitRerun == Init /\ plState = "modify-complete"

NextRerun == Next \/ Rerun

SpecRerun == InitRerun /\ [][NextRerun]_vars

(***************************************************************************)
(* Two invocations for the same mapping overlap.                           *)
(***************************************************************************)
\* the entries of the first entry call a pass sends for the difference
\* between the membership D and the /32 part O of the list
FirstEntryCall(D, O) ==
  LET add == ItemsToAdd(D, O)
      rem == ItemsToRemove(D, O)
  IN IF BulkPath(add, rem) THEN [add |-> ToCidrs(add), rem |-> ToCidrs(rem)]
     ELSE IF rem # {} THEN [add |-> {}, rem |-> ToCidrs(FirstPage(rem))]
     ELSE [add |-> ToCidrs(FirstPage(add)), rem |-> {}]

\* the overlapping invocation gets its first entry call accepted: it has read
\* the same membership, and the list's entries and version as they are now
OtherWrite ==
  /\ "membership" \in reads
  /\ pc \notin {"done", "exit"}
  /\ otherWrites < MaxOtherWrites
  /\ plState \in ReadyStates
  /\ LET add == ItemsToAdd(sgiplist, StripHostMask(plCidrs))
         rem == ItemsToRemove(sgiplist, StripHostMask(plCidrs))
         call == FirstEntryCall(sgiplist, StripHostMask(plCidrs))
     IN /\ BulkPath(add, rem) \/ PagedPath(add, rem)
        /\ RemoteAccepts(plVersion, call.add, call.rem, 0)
        /\ plPending' = [add |-> call.add, rem |-> call.rem, maxent |-> 0]
  /\ plState' = "modify-in-progress"
  /\ otherWrites' = otherWrites + 1
  /\ UNCHANGED <<plCidrs, plMaxEnt, plVersion, plStateMessage, padding, pc,
                 localVars, histVars, pass, prev, outsideVars>>

\* the overlap starts with the list at rest and holding /32 entries only
InitConc ==
  /\ Init
  /\ plState = "modify-complete"
  /\ \A c \in plCidrs : c[2] = HostMask

NextConc == Next \/ OtherWrite

SpecConc == InitConc /\ [][NextConc]_vars

(***************************************************************************)
(* The bulk initiator (src/SG2PL-BulkBatchInitiator.py): one run reads the *)
(* mappings from the configuration store, page by page, and invokes Batch  *)
(* Sync once per parameter returned.                                       *)
(***************************************************************************)
\* the security groups, regions and prefix lists of the mappings
SgIds == {"sg-1", "sg-2"}
RegionIds == {"eu-west-1", "us-east-1"}
PlIds == <<"pl-1", "pl-2", "pl-3", "pl-4", "pl-5">>
\* os.environ['parameter_store_path'] split at '/'
ParamPath == <<"", "autosg2pl">>
\* the paginator returns at most MaxPageParams parameters per page
MaxPageParams == 2

\* the parameter that holds a mapping: Name=paramstorepath+'/'+sg+'/'+region,
\* Value=pl; the name is kept as its '/'-separated sections
Parameter(m) == [Name |-> ParamPath \o <<m[1], m[3]>>, Value |-> m[2]]

\* faulty variant: the group is taken one section too early
paramparser_SgFromPath(parameter) ==
  LET name == parameter.Name
  IN [sg |-> name[Len(name) - 2], pl |-> parameter.Value, region |-> name[Len(name)]]

\* paramparser, for one parameter: region is the last section of the name, sg
\* the second to last, pl the value
paramparser(parameter) ==
  LET name == parameter.Name
  IN [sg |-> name[Len(name) - 1], pl |-> parameter.Value, region |-> name[Len(name)]]

\* the stores: at most one parameter per name
Stores ==
  {st \in SUBSET (SgIds \X {PlIds[1], PlIds[2]} \X RegionIds) :
     \A m, n \in st : (m[1] = n[1] /\ m[3] = n[3]) => m = n}

\* no pass of Batch Sync is running
PassAtRest ==
  /\ plCidrs = {}
  /\ plMaxEnt \in {c \in Capacities : \A d \in Capacities : c <= d}
  /\ plVersion = 1
  /\ plState = "create-complete"
  /\ plStateMessage = NoMessage
  /\ plPending = NoPending
  /\ padding \in Paddings
  /\ pc = "none"
  /\ event = {}
  /\ sgiplist = {}
  /\ pliplist = {}
  /\ itemstoadd = {}
  /\ itemstoremove = {}
  /\ newpllength = 0
  /\ plinfo = [MaxEnt |-> 0, Version |-> 0]
  /\ currentquota = 0
  /\ version = 0
  /\ pages = <<>>
  /\ calls = <<>>
  /\ alerts = <<>>
  /\ polled = FALSE
  /\ seenVersion = 0
  /\ reads = {}
  /\ pass = 1
  /\ prev = NoPrev
  /\ otherWrites = 0
  /\ otherList = [Cidrs |-> {OtherCidr(0)}, Version |-> 1]

\* lambda_handler: paginator = ssm.get_paginator('get_parameters_by_path')
DispatchStart ==
  /\ dpc = "idle"
  /\ dpc' = "paginate"
  /\ UNCHANGED <<passVars, mappings, otherList, invocations, dseen, dpage,
                 onboardVars, logs>>

\* for page in page_iterator: the next page holds parameters under the path
\* that no earlier page held; the loop ends when none is left
DispatchPage ==
  /\ dpc = "paginate"
  /\ dpage = {}
  /\ LET unseen == {Parameter(m) : m \in mappings} \ dseen
     IN IF unseen = {}
        THEN /\ dpc' = "done"
             /\ UNCHANGED <<dseen, dpage>>
        ELSE /\ \E page \in SUBSET unseen :
                  /\ page # {}
                  /\ Cardinality(page) <= MaxPageParams
                  /\ dpage' = page
                  /\ dseen' = dseen \cup page
             /\ dpc' = dpc
  /\ UNCHANGED <<passVars, mappings, otherList, invocations, onboardVars, logs>>

\* run_update(paramparser(page)): one lambdaclient.invoke per parameter
DispatchInvoke ==
  /\ dpc = "paginate"
  /\ \E parameter \in dpage :
       /\ invocations' = Append(invocations, paramparser(parameter))
       /\ dpage' = dpage \ {parameter}
  /\ UNCHANGED <<passVars, mappings, otherList, dpc, dseen, onboardVars, logs>>

InitDispatch ==
  /\ PassAtRest
  /\ mappings \in Stores
  /\ OpsIdle

NextDispatch ==
  \/ DispatchStart
  \/ DispatchPage
  \/ DispatchInvoke

SpecDispatch == InitDispatch /\ [][NextDispatch]_vars

(***************************************************************************)
(* Onboarding (src/SG2PL-Onboard.py): a run checks the group and the       *)
(* mapping, creates the prefix list and records the mapping.               *)
(***************************************************************************)
\* onboarding runs, one after the other
MaxRuns == 2
\* the addresses get_ips_in_sg returns to create_prefixlist: 1..n
OnboardSizes == {2, 99, 100}
\* os.environ['security_group_quota_padding_base']
PaddingBases == {0, 10}

\* pllen = int(len(cidrstoadd)*sgrulepaddingpercentage+sgrulepaddingbase) with
\* sgrulepaddingpercentage = (int(padding)/100)+1
PlLen(n, pad, base) == (n * (100 + pad)) \div 100 + base

HasMapping(sg, region) == \E m \in mappings : m[1] = sg /\ m[3] = region

OnboardOthers == <<passVars, otherList, dispatchVars, logs>>

\* lambda_handler: the event's sg and region; a missing field ends the run
OnboardInvoke ==
  /\ ob.pc \in {"none", "done", "exit"}
  /\ obRuns < MaxRuns
  /\ obRuns' = obRuns + 1
  /\ \E sg \in SgIds, region \in RegionIds, ev \in SUBSET {"sg", "region"} :
       ob' = [NoOnboard EXCEPT
                !.pc = IF ev = {"sg", "region"} THEN "sg_existence_check" ELSE "exit",
                !.sg = sg, !.region = region, !.had = HasMapping(sg, region)]
  /\ UNCHANGED <<OnboardOthers, mappings, invocations, lists>>

\* sg_existence_check: one group described, or not (an exception counts as not)
SgExistenceCheck ==
  /\ ob.pc = "sg_existence_check"
  /\ \E exists \in BOOLEAN :
       ob' = [ob EXCEPT !.pc = IF exists THEN "parameter_not_exist_check" ELSE "exit"]
  /\ UNCHANGED <<OnboardOthers, mappings, invocations, lists, obRuns>>

\* parameter_not_exist_check: True when get_parameters returns no parameter
\* and also when it raises
ParameterNotExistCheck ==
  /\ ob.pc = "parameter_not_exist_check"
  /\ \E raised \in BOOLEAN :
       ob' = [ob EXCEPT !.pc = IF raised \/ ~HasMapping(ob.sg, ob.region)
                                 THEN "get_ips_in_sg" ELSE "exit"]
  /\ UNCHANGED <<OnboardOthers, mappings, invocations, lists, obRuns>>

\* create_prefixlist: cidrs = get_ips_in_sg(sg)
OnboardGetIpsInSg ==
  /\ ob.pc = "get_ips_in_sg"
  /\ \E n \in OnboardSizes : ob' = [ob EXCEPT !.pc = "quota", !.cidrs = 1..n]
  /\ UNCHANGED <<OnboardOthers, mappings, invocations, lists, obRuns>>

\* create_prefixlist: if pllen > currentquota the run ends
OnboardQuota ==
  /\ ob.pc = "quota"
  /\ \E q \in Quotas, base \in PaddingBases :
       LET pllen == PlLen(Cardinality(ob.cidrs), padding, base)
       IN ob' = [ob EXCEPT !.pc = IF pllen > q THEN "exit" ELSE "create",
                           !.pllen = pllen]
  /\ UNCHANGED <<OnboardOthers, mappings, invocations, lists, obRuns>>

\* create_managed_prefix_list: with the entries when there are fewer than 100,
\* empty otherwise; an exception ends the run
OnboardCreate ==
  /\ ob.pc = "create"
  /\ \E err \in BOOLEAN :
       IF err
       THEN /\ ob' = [ob EXCEPT !.pc = "exit"]
            /\ lists' = lists
       ELSE LET id == PlIds[Len(lists) + 1]
                direct == Cardinality(ob.cidrs) < BulkLimit
            IN /\ lists' = Append(lists,
                     [id |-> id, name |-> ob.sg,
                      entries |-> IF direct THEN ToCidrs(ob.cidrs) ELSE {},
                      maxent |-> ob.pllen, by |-> obRuns])
               /\ ob' = [ob EXCEPT !.pc = IF direct THEN "create_parameter"
                                                    ELSE "invoke",
                                   !.plcreate = id]
  /\ UNCHANGED <<OnboardOthers, mappings, invocations, obRuns>>

\* lambdaclient.invoke(FunctionName=batchsyncfn, InvocationType='Event'): the
\* pass is queued, not awaited; an exception ends the run
OnboardBatchSync ==
  /\ ob.pc = "invoke"
  /\ \E err \in BOOLEAN :
       IF err
       THEN /\ ob' = [ob EXCEPT !.pc = "exit"]
            /\ invocations' = invocations
       ELSE /\ ob' = [ob EXCEPT !.pc = "create_parameter"]
            /\ invocations' = Append(invocations,
                  [sg |-> ob.sg, pl |-> ob.plcreate, region |-> ob.region])
  /\ UNCHANGED <<OnboardOthers, mappings, lists, obRuns>>

\* create_parameter: put_parameter(Name=..., Value=pl, Overwrite=False); False
\* when the call raises, which it does when the name exists
CreateParameter ==
  /\ ob.pc = "create_parameter"
  /\ \E err \in BOOLEAN :
       IF err \/ HasMapping(ob.sg, ob.region)
       THEN /\ ob' = [ob EXCEPT !.pc = "exit"]
            /\ mappings' = mappings
       ELSE /\ ob' = [ob EXCEPT !.pc = "done"]
            /\ mappings' = mappings \cup {<<ob.sg, ob.plcreate, ob.region>>}
  /\ UNCHANGED <<OnboardOthers, invocations, lists, obRuns>>

\* the store is empty or holds one mapping made earlier
InitOnboard ==
  /\ PassAtRest
  /\ mappings \in {{}, {<<"sg-1", PlIds[Len(PlIds)], "eu-west-1">>}}
  /\ OpsIdle

NextOnboard ==
  \/ OnboardInvoke
  \/ SgExistenceCheck
  \/ ParameterNotExistCheck
  \/ OnboardGetIpsInSg
  \/ OnboardQuota
  \/ OnboardCreate
  \/ OnboardBatchSync
  \/ CreateParameter

SpecOnboard == InitOnboard /\ [][NextOnboard]_vars

(***************************************************************************)
(* The log handler, called on its own with every kind of argument.         *)
(***************************************************************************)
\* the severity argument: 1 info, 2 warn, 3 critical, and values outside
Severities == 0..4
\* int(os.environ['log_level']), read by every call
LogLevels == 0..4
\* log_handler calls in a row
MaxLogCalls == 2

\* faulty variant: a message below the configured level is printed and nothing
\* else happens
log_handler_DropsBelowLevel(severity, loglevel, sendmessage, terminate) ==
  IF severity = 1 /\ loglevel <= 1
  THEN [prefix |-> "INFO", published |-> sendmessage, exited |-> terminate,
        status |-> IF terminate THEN 1 ELSE 0]
  ELSE IF severity = 2 /\ loglevel <= 2
  THEN [prefix |-> "WARNING", published |-> sendmessage, exited |-> terminate,
        status |-> IF terminate THEN 1 ELSE 0]
  ELSE IF severity = 3 /\ loglevel <= 3
  THEN [prefix |-> "CRITICAL", published |-> sendmessage, exited |-> terminate,
        status |-> IF terminate THEN 1 ELSE 0]
  ELSE [prefix |-> "UNKNOWN", published |-> FALSE, exited |-> FALSE, status |-> 0]

\* log_handler(message, severity, sendmessage, terminate): the branch taken,
\* and in each branch print(prefix + message), sns.publish if sendmessage,
\* sys.exit(1) if terminate
log_handler(severity, loglevel, sendmessage, terminate) ==
  IF severity = 1 /\ loglevel <= 1
  THEN [prefix |-> "INFO", published |-> sendmessage, exited |-> terminate,
        status |-> IF terminate THEN 1 ELSE 0]
  ELSE IF severity = 2 /\ loglevel <= 2
  THEN [prefix |-> "WARNING", published |-> sendmessage, exited |-> terminate,
        status |-> IF terminate THEN 1 ELSE 0]
  ELSE IF severity = 3 /\ loglevel <= 3
  THEN [prefix |-> "CRITICAL", published |-> sendmessage, exited |-> terminate,
        status |-> IF terminate THEN 1 ELSE 0]
  ELSE [prefix |-> "UNKNOWN", published |-> sendmessage, exited |-> terminate,
        status |-> IF terminate THEN 1 ELSE 0]

\* one call of log_handler in a process that has not exited
LogCall ==
  /\ Len(logs) < MaxLogCalls
  /\ IF logs = <<>> THEN TRUE ELSE ~logs[Len(logs)].exited
  /\ \E severity \in Severities, loglevel \in LogLevels,
        sendmessage \in BOOLEAN, terminate \in BOOLEAN :
       LET r == log_handler(severity, loglevel, sendmessage, terminate)
       IN logs' = Append(logs,
                    [severity |-> severity, loglevel |-> loglevel,
                     sendmessage |-> sendmessage, terminate |-> terminate,
                     prefix |-> r.prefix, published |-> r.published,
                     exited |-> r.exited, status |-> r.status])
  /\ UNCHANGED <<passVars, mappings, otherList, invocations, dispatchVars,
                 onboardVars>>

InitLog ==
  /\ PassAtRest
  /\ mappings = {}
  /\ OpsIdle

NextLog == LogCall

SpecLog == InitLog /\ [][NextLog]_vars

(***************************************************************************)
(* Vocabulary of the properties.                                           *)
(***************************************************************************)
\* the quota has been read and the quota check has let the pass continue
QuotaPassed == currentquota # 0 /\ currentquota - newpllength >= 1
CallIdsOf(kind) == {i \in DOMAIN calls : calls[i].kind = kind}
AddedBy(ids) == UNION {calls[i].add : i \in ids}
RemovedBy(ids) == UNION {calls[i].rem : i \in ids}
\* the positions of the pass where it polls the list's state
WaitPcs == {"resize_wait", "bulk_wait", "rm_wait", "rm_page_wait", "add_wait",
            "add_page_wait"}
\* the entry calls issued up to the i-th call
EntryCallsUpTo(i) == {j \in EntryCallIds : j <= i}
\* the states after which the pass cannot go on: failed, deleted, unknown
DeadStates == FailedStates \cup DeleteStates \cup UnknownStates
AllHostMask(cidrs) == \A c \in cidrs : c[2] = 32

(***************************************************************************)
(* C1: when a pass returns its success message and the remote list has     *)
(* settled, the /32 addresses held by the prefix list are exactly the      *)
(* membership read by the pass, whatever the size of the diff and whether  *)
(* or not the pass resized.                                                *)
(***************************************************************************)
C1_SuccessMirrorsMembership ==
  (pc = "done" /\ plState \in ReadyStates) => StripHostMask(plCidrs) = sgiplist

(***************************************************************************)
(* C2: every mutating call (capacity change, bulk, remove page, add page)  *)
(* is preceded, after the previous mutating call, by a poll that saw the   *)
(* list ready, and is not issued while the list is in progress.            *)
(***************************************************************************)
C2_EveryCallAfterReadyPoll ==
  \A i \in DOMAIN calls : calls[i].polled /\ calls[i].state \notin InProgressStates

(***************************************************************************)
(* C3: every entry-mutating call carries a version at least as new as the  *)
(* version in the latest describe or modify response the pass received; in *)
(* particular the bulk call carries the version read after its wait.       *)
(***************************************************************************)
C3_CallVersionNotOlderThanSeen ==
  \A i \in EntryCallIds : calls[i].ver >= calls[i].seen

(***************************************************************************)
(* C4: once the pass has read the membership D and the observed /32 set O, *)
(* toAdd holds exactly the addresses of D that are not in O and toRemove   *)
(* exactly those of O that are not in D; the two are disjoint, toAdd is    *)
(* disjoint from O and toRemove from D, and O is the /32 part of the list  *)
(* as it was read.                                                         *)
(***************************************************************************)
C4_DiffIsSetDifference ==
  pc \notin {"start", "get_ips_in_sg", "get_ips_in_pl"} =>
    /\ \A x \in sgiplist \cup pliplist :
         /\ x \in itemstoadd <=> (x \in sgiplist /\ x \notin pliplist)
         /\ x \in itemstoremove <=> (x \in pliplist /\ x \notin sgiplist)
    /\ itemstoadd \subseteq sgiplist
    /\ itemstoremove \subseteq pliplist
    /\ itemstoadd \cap itemstoremove = {}
    /\ itemstoadd \cap pliplist = {}
    /\ itemstoremove \cap sgiplist = {}

C4_Witness ==
  /\ pc = "pl_info"
  /\ itemstoadd # {}
  /\ itemstoremove # {}
  /\ sgiplist \cap pliplist # {}

(***************************************************************************)
(* C5: when the observed capacity is at least finalSize and toAdd or       *)
(* toRemove has 100 or more entries, a pass that returns success has       *)
(* issued remove-only and add-only calls that cover all of toRemove and    *)
(* all of toAdd.                                                           *)
(***************************************************************************)
C5_HundredOrMoreIsPaginated ==
  ( /\ pc = "done"
    /\ plinfo.MaxEnt >= newpllength
    /\ (Cardinality(itemstoadd) >= 100 \/ Cardinality(itemstoremove) >= 100) )
  => /\ \A i \in DOMAIN calls : calls[i].kind \in {"remove", "add"}
     /\ AddedBy(CallIdsOf("add")) = ToCidrs(itemstoadd)
     /\ RemovedBy(CallIdsOf("remove")) = ToCidrs(itemstoremove)

(***************************************************************************)
(* C6: when the observed capacity is at least finalSize, toAdd or toRemove *)
(* is non-empty and both have fewer than 100 entries, the pass never       *)
(* issues more than one call, every call it issues is the bulk call        *)
(* carrying all of toAdd and all of toRemove as /32 entries, and a pass    *)
(* that returns success has issued exactly one.                            *)
(***************************************************************************)
C6_SmallDiffIsOneBulkCall ==
  ( /\ QuotaPassed
    /\ plinfo.MaxEnt >= newpllength
    /\ (itemstoadd # {} \/ itemstoremove # {})
    /\ Cardinality(itemstoadd) < 100
    /\ Cardinality(itemstoremove) < 100 )
  => /\ Len(calls) <= 1
     /\ \A i \in DOMAIN calls :
          /\ calls[i].kind = "bulk"
          /\ AllHostMask(calls[i].add) /\ AllHostMask(calls[i].rem)
          /\ {c[1] : c \in calls[i].add} = itemstoadd
          /\ {c[1] : c \in calls[i].rem} = itemstoremove
     /\ pc = "done" => Len(calls) = 1

\* a bulk call whose two sets together exceed 100 entries
C6_Witness ==
  /\ pc = "done"
  /\ Len(calls) = 1
  /\ calls[1].kind = "bulk"
  /\ Cardinality(calls[1].add) = 99
  /\ Cardinality(calls[1].rem) >= 1

(***************************************************************************)
(* C7: no mutating call carries more than 99 add-entries or more than 99   *)
(* remove-entries.                                                         *)
(***************************************************************************)
C7_AtMost99PerCall ==
  \A i \in DOMAIN calls :
    Cardinality(calls[i].add) <= 99 /\ Cardinality(calls[i].rem) <= 99

\* a full page of a set of more than 99 entries, and a remove page too
C7_Witness ==
  /\ Cardinality(itemstoadd) > 99
  /\ \E i \in CallIdsOf("add") : Cardinality(calls[i].add) = 99
  /\ \E i \in CallIdsOf("remove") : Cardinality(calls[i].rem) = 99

(***************************************************************************)
(* C8: in the paginated path no add-only call precedes a remove-only call, *)
(* and when the first add-only call is issued the remove-only calls issued *)
(* before it already cover all of toRemove.                                *)
(***************************************************************************)
C8_RemovesBeforeAdds ==
  /\ \A i, j \in DOMAIN calls :
       (calls[i].kind = "add" /\ calls[j].kind = "remove") => j < i
  /\ \A i \in CallIdsOf("add") :
       RemovedBy({j \in CallIdsOf("remove") : j < i}) = ToCidrs(itemstoremove)

C8_Witness ==
  /\ Cardinality(CallIdsOf("remove")) >= 2
  /\ CallIdsOf("add") # {}

(***************************************************************************)
(* C9: if quota - finalSize < 1 the pass terminates with an alert and      *)
(* without any mutating call; if quota - finalSize >= 1 the quota check    *)
(* neither stops the pass nor alerts (finalSize = quota - 1 proceeds,      *)
(* finalSize = quota aborts).                                              *)
(***************************************************************************)
C9_QuotaAlerted == \E i \in DOMAIN alerts : alerts[i].what = "quota"

C9_QuotaAbort ==
  /\ [](currentquota # 0 =>
          IF currentquota - newpllength < 1
          THEN pc = "exit" /\ calls = <<>> /\ C9_QuotaAlerted
          ELSE ~C9_QuotaAlerted)
  /\ [][(pc = "get_quota" /\ currentquota' - newpllength >= 1) => pc' # "exit"]_vars

\* finalSize = quota: the pass has stopped
C9_Witness ==
  /\ currentquota = newpllength
  /\ currentquota # 0
  /\ pc = "exit"

(***************************************************************************)
(* C10: the capacity requested by a resize call is ceil(finalSize /        *)
(* paddingRatio) if that does not exceed the quota and quota - 1           *)
(* otherwise; no capacity-change call is issued when finalSize is at most  *)
(* the observed capacity.                                                  *)
(***************************************************************************)
C10_ResizeTarget ==
  \A i \in CallIdsOf("resize") :
    /\ newpllength > plinfo.MaxEnt
    /\ calls[i].maxent = IF CeilExact(newpllength, padding) <= currentquota
                         THEN CeilExact(newpllength, padding)
                         ELSE currentquota - 1

(***************************************************************************)
(* C11: a pass that issues a capacity-change call issues no add/remove     *)
(* entry call, and a pass that issues an entry call issues no              *)
(* capacity-change call.                                                   *)
(***************************************************************************)
C11_ResizeExcludesEntryCalls ==
  ~(CallIdsOf("resize") # {} /\ EntryCallIds # {})

\* a pass with entries to add has resized, waited, and returned success
C11_Witness ==
  /\ pc = "done"
  /\ CallIdsOf("resize") # {}
  /\ itemstoadd # {}
  /\ polled

(***************************************************************************)
(* C12: when the prefix list holds only /32 entries, the list never holds  *)
(* more entries than its capacity; entry calls are issued only when the    *)
(* observed capacity is at least finalSize, and the entry count after each *)
(* entry call of the pass stays within the observed capacity.              *)
(***************************************************************************)
C12_WithinCapacity ==
  AllHostMask(plCidrs) =>
    /\ Cardinality(plCidrs) <= plMaxEnt
    /\ Cardinality((plCidrs \ plPending.rem) \cup plPending.add) <= plMaxEnt
    /\ \A i \in EntryCallIds :
         /\ plinfo.MaxEnt >= newpllength
         /\ Cardinality((ToCidrs(pliplist) \ RemovedBy(EntryCallsUpTo(i)))
                          \cup AddedBy(EntryCallsUpTo(i))) <= plinfo.MaxEnt

\* removes and adds are done, and the adds alone would not have fitted
C12_Witness ==
  /\ pc = "done"
  /\ AllHostMask(plCidrs)
  /\ CallIdsOf("remove") # {}
  /\ CallIdsOf("add") # {}
  /\ Cardinality(ToCidrs(pliplist) \cup ToCidrs(itemstoadd)) > plinfo.MaxEnt

(***************************************************************************)
(* C13: while the list is in create-in-progress, modify-in-progress or     *)
(* restore-in-progress, a poll of the list's state does not terminate the  *)
(* pass.                                                                   *)
(***************************************************************************)
C13_InProgressDoesNotTerminate ==
  [][(pc \in WaitPcs /\ plState \in InProgressStates) => pc' # "exit"]_vars

(***************************************************************************)
(* C14: a poll of the list's state leaves the wait loop towards the next   *)
(* step exactly when the state is create-complete, modify-complete or      *)
(* restore-complete; in a failed state, a delete state or an unknown state *)
(* it terminates the pass, and a terminated pass issues no call.           *)
(***************************************************************************)
C14_ReadyExactlyForComplete ==
  /\ [][(pc \in WaitPcs /\ plState' = plState) =>
          /\ (pc' \notin {pc, "exit"} /\ polled') <=> plState \in ReadyStates
          /\ plState \in DeadStates => (pc' = "exit" /\ calls' = calls)]_vars
  /\ [][(pc = "exit" /\ pass' = pass) => (pc' = "exit" /\ calls' = calls)]_vars

\* the pass has issued a call, the modification failed, and the poll ended it
C14_Witness ==
  /\ pc = "exit"
  /\ calls # <<>>
  /\ calls[Len(calls)].ok
  /\ plState = "modify-failed"

(***************************************************************************)
(* C15: a mutating call that returns a remote error is the last call of    *)
(* the pass: the pass has terminated, the remaining pages are not sent,    *)
(* and the pass does not return success.                                   *)
(***************************************************************************)
C15_CallErrorIsFatal ==
  \A i \in DOMAIN calls : ~calls[i].ok => (i = Len(calls) /\ pc = "exit")

\* the third call of a paginated pass failed with pages left to send
C15_Witness ==
  /\ pc = "exit"
  /\ Len(calls) >= 3
  /\ ~calls[Len(calls)].ok
  /\ Len(pages) >= 2

(***************************************************************************)
(* C16: when the event lacks sg, pl or region, the pass has terminated     *)
(* with one alert, before any remote read and before any mutating call.    *)
(***************************************************************************)
C16_MissingFieldIsFatal ==
  (pc # "start" /\ ~(Fields \subseteq event)) =>
    /\ pc = "exit"
    /\ reads = {}
    /\ calls = <<>>
    /\ Len(alerts) = 1
    /\ alerts[1].severity = 3
    /\ alerts[1].what \in {"no-sg", "no-pl", "no-region"}

C16_Witness ==
  /\ pc = "exit"
  /\ event = {"sg", "pl"}
  /\ alerts # <<>>

(***************************************************************************)
(* C17: a pass that has terminated fatally has sent an alert to the        *)
(* notification channel.                                                   *)
(***************************************************************************)
C17_FatalExitAlerted ==
  pc = "exit" => (alerts # <<>> /\ alerts[Len(alerts)].severity = 3)

(***************************************************************************)
(* C18: after a pass has applied its diff (it returned success, it sent    *)
(* entry calls and the last modification has landed), the next pass with   *)
(* the same membership computes empty toAdd and toRemove and issues no     *)
(* mutating call.                                                          *)
(***************************************************************************)
C18_SecondPassIsEmpty ==
  (prev.applied /\ pc \notin {"start", "get_ips_in_sg", "get_ips_in_pl"}) =>
    /\ itemstoadd = {}
    /\ itemstoremove = {}
    /\ calls = <<>>

\* the second pass has returned after the first one changed the list
C18_Witness ==
  /\ prev.applied
  /\ prev.calls >= 2
  /\ pc = "done"
  /\ sgiplist # {}

(***************************************************************************)
(* C19: re-running the pass converges: when two passes in a row return     *)
(* success without issuing a call, with the list at rest, nothing is left  *)
(* to do, that is, the list's /32 set equals the membership D.             *)
(***************************************************************************)
C19_RerunConverges ==
  ( /\ prev.pc = "done"
    /\ prev.calls = 0
    /\ pc = "done"
    /\ calls = <<>>
    /\ plState \in ReadyStates
    /\ plPending = NoPending )
  => StripHostMask(plCidrs) = sgiplist

(***************************************************************************)
(* C20: a mutating call that carries a version other than the list's       *)
(* version is refused and changes neither the entries nor the capacity of  *)
(* the list; it is the last call of the pass, which has terminated and     *)
(* reads nothing more.                                                     *)
(***************************************************************************)
StaleCall(c) == c.ver # 0 /\ c.ver # c.cur

C20_StaleCallIsFatal ==
  /\ [][\A i \in DOMAIN calls' :
          StaleCall(calls'[i]) =>
            (~calls'[i].ok /\ i = Len(calls') /\ pc' = "exit")]_vars
  /\ [][(Len(calls') = Len(calls) + 1 /\ StaleCall(calls'[Len(calls')])) =>
          /\ plCidrs' = plCidrs
          /\ plMaxEnt' = plMaxEnt
          /\ plVersion' = plVersion
          /\ plPending' = plPending]_vars
  /\ [][(pc = "exit" /\ pass' = pass) =>
          (pc' = "exit" /\ calls' = calls /\ reads' = reads)]_vars

\* a page call refused as stale after the other invocation's write landed
C20_Witness ==
  /\ otherWrites >= 1
  /\ pc = "exit"
  /\ calls # <<>>
  /\ StaleCall(calls[Len(calls)])
  /\ calls[Len(calls)].kind \in {"remove", "add"}
  /\ calls[Len(calls)].state \in ReadyStates

(***************************************************************************)
(* C21: every remove-page and add-page call is sent after a poll that saw  *)
(* the list ready and carries the version read after that poll, which is   *)
(* the list's version; the versions carried by the calls of one pass       *)
(* increase strictly, so no two calls carry the same version.              *)
(***************************************************************************)
PageCallIds == CallIdsOf("remove") \cup CallIdsOf("add")

C21_PageProtocol ==
  /\ \A i \in PageCallIds :
       /\ calls[i].polled
       /\ calls[i].state \in ReadyStates
       /\ calls[i].ver = calls[i].seen
       /\ calls[i].ver = calls[i].cur
  /\ \A i, j \in DOMAIN calls : i < j => calls[i].ver < calls[j].ver

\* three accepted page calls, removes and adds, and the pass has returned
C21_Witness ==
  /\ pc = "done"
  /\ Len(calls) >= 3
  /\ CallIdsOf("remove") # {}
  /\ calls[Len(calls)].kind = "add"
  /\ calls[Len(calls)].ver >= 3

(***************************************************************************)
(* C22: when a pass that took the paginated path returns success, each     *)
(* side of n entries has been sent in exactly ceil(n/99) calls, every call *)
(* but the last with 99 entries; the calls of a side are pairwise disjoint *)
(* and their union is the whole side; an empty side gets no call.          *)
(***************************************************************************)
ChunkOf(i) == IF calls[i].kind = "add" THEN calls[i].add ELSE calls[i].rem

SideInChunks(ids, S) ==
  /\ Cardinality(ids) = (Cardinality(S) + 98) \div 99
  /\ \A i \in ids :
       /\ ChunkOf(i) # {}
       /\ Cardinality(ChunkOf(i)) <= 99
       /\ (\E j \in ids : j > i) => Cardinality(ChunkOf(i)) = 99
  /\ \A i, j \in ids : i # j => ChunkOf(i) \cap ChunkOf(j) = {}
  /\ UNION {ChunkOf(i) : i \in ids} = ToCidrs(S)

C22_ChunksCoverEachSide ==
  ( /\ pc = "done"
    /\ plinfo.MaxEnt >= newpllength
    /\ (Cardinality(itemstoadd) > 100 \/ Cardinality(itemstoremove) > 100) )
  => /\ SideInChunks(CallIdsOf("add"), itemstoadd)
     /\ SideInChunks(CallIdsOf("remove"), itemstoremove)
     /\ PageCallIds = DOMAIN calls

\* 198 adds in two full pages and no remove call
C22_Witness ==
  /\ pc = "done"
  /\ itemstoremove = {}
  /\ Cardinality(itemstoadd) = 198
  /\ Len(calls) = 2
  /\ calls[1].kind = "add"

(***************************************************************************)
(* C23, as stated: once the quota has been read, a pass with toAdd and     *)
(* toRemove both empty and the observed capacity at least finalSize has    *)
(* returned success without a mutating call.                               *)
(***************************************************************************)
NoOpCase ==
  /\ "quota" \in reads
  /\ itemstoadd = {}
  /\ itemstoremove = {}
  /\ plinfo.MaxEnt >= newpllength

C23_NoOpAlwaysSucceeds == NoOpCase => (pc = "done" /\ calls = <<>>)

(***************************************************************************)
(* C23, amended: a pass with toAdd and toRemove both empty, the observed   *)
(* capacity at least finalSize and quota - finalSize >= 1 returns success  *)
(* without a mutating call; with quota - finalSize < 1 it has terminated   *)
(* without a call; a step of a pass that issues no call leaves the list's  *)
(* entries, capacity and version unchanged.                                *)
(***************************************************************************)
C23_NoOpPass ==
  /\ [][NoOpCase' => /\ calls' = <<>>
                     /\ pc' = IF QuotaPassed' THEN "done" ELSE "exit"]_vars
  /\ [][(pc' # pc /\ Len(calls') = Len(calls)) =>
          UNCHANGED <<plCidrs, plMaxEnt, plVersion, plState, plPending>>]_vars

\* the list already mirrors a group of at least 100 addresses
C23_Witness ==
  /\ pc = "done"
  /\ calls = <<>>
  /\ itemstoadd = {}
  /\ itemstoremove = {}
  /\ Cardinality(sgiplist) >= 100
  /\ StripHostMask(plCidrs) = sgiplist

(***************************************************************************)
(* C24: the capacity requested by a resize call never exceeds quota - 1:   *)
(* the raw target is requested when it is at most quota - 1 and            *)
(* quota - 1 is requested otherwise, also when the raw target equals the   *)
(* quota.                                                                  *)
(***************************************************************************)
C24_ResizeBelowQuota ==
  \A i \in CallIdsOf("resize") :
    /\ calls[i].maxent <= currentquota - 1
    /\ calls[i].maxent = IF CeilFloat(newpllength, padding) <= currentquota - 1
                         THEN CeilFloat(newpllength, padding)
                         ELSE currentquota - 1

(***************************************************************************)
(* C25: in the resize branch the pass issues at most one call, a           *)
(* capacity-change call; when it returns success it has issued exactly     *)
(* one, a poll after that call has seen the list ready, and the list has   *)
(* the requested capacity; a poll that sees modify-failed after the resize *)
(* ends the pass.                                                          *)
(***************************************************************************)
ResizeBranch == QuotaPassed /\ plinfo.MaxEnt < newpllength

C25_ResizeThenWait ==
  /\ [][ResizeBranch' =>
          /\ pc' \in {"pl_resize", "resize_wait", "done", "exit"}
          /\ Len(calls') <= 1
          /\ \A i \in DOMAIN calls' : calls'[i].kind = "resize"
          /\ pc' = "done" => /\ Len(calls') = 1
                             /\ calls'[1].ok
                             /\ polled'
                             /\ plState' \in ReadyStates
                             /\ plMaxEnt' = calls'[1].maxent]_vars
  /\ [][(pc = "resize_wait" /\ plState = "modify-failed") => pc' = "exit"]_vars

\* the resize has landed and the pass has returned
C25_Witness ==
  /\ pc = "done"
  /\ Len(calls) = 1
  /\ calls[1].kind = "resize"
  /\ plMaxEnt = calls[1].maxent
  /\ plMaxEnt > plinfo.MaxEnt

(***************************************************************************)
(* C26: a capacity-change call issued against a list whose version has     *)
(* changed since the pass read its metadata is refused as stale.           *)
(***************************************************************************)
C26_StaleResizeRefused ==
  \A i \in CallIdsOf("resize") :
    calls[i].cur # plinfo.Version => ~calls[i].ok

(***************************************************************************)
(* C27: when quota - finalSize >= 1, the step of the quota checks goes to  *)
(* the resize, the bulk update, the pages or the success message according *)
(* to the capacity and the diff alone, and sends the threshold alert       *)
(* exactly when finalSize / quota > paddingRatio; the step of pl_resize    *)
(* issues the capacity-change call whether or not the target is clipped,   *)
(* and sends the clip alert exactly when it is.                            *)
(***************************************************************************)
Alerted(log, what) == \E i \in DOMAIN log : log[i].what = what

\* where the pass goes from its capacity and its diff
NextMutation ==
  IF plinfo.MaxEnt < newpllength THEN "pl_resize"
  ELSE IF itemstoadd = {} /\ itemstoremove = {} THEN "done"
  ELSE IF Cardinality(itemstoadd) < 100 /\ Cardinality(itemstoremove) < 100
       THEN "bulk_wait"
  ELSE IF Cardinality(itemstoadd) <= 100 /\ Cardinality(itemstoremove) <= 100
       THEN "done"
  ELSE IF itemstoremove # {} THEN "rm_wait" ELSE "add_wait"

C27_WarningsDoNotStop ==
  /\ [][(pc = "get_quota" /\ pc' # pc /\ currentquota' - newpllength >= 1) =>
          /\ pc' = NextMutation
          /\ calls' = calls
          /\ Alerted(alerts', "threshold")
               <=> newpllength * 100 > (100 - padding) * currentquota']_vars
  /\ [][(pc = "pl_resize" /\ pc' # pc) =>
          /\ Len(calls') = 1
          /\ calls'[1].kind = "resize"
          /\ calls'[1].ok => pc' = "resize_wait"
          /\ Alerted(alerts', "clipped") <=> calls'[1].maxent = currentquota - 1
                                            /\ CeilFloat(newpllength, padding)
                                                 > currentquota]_vars

\* both warnings were sent and the pass has resized and returned
C27_Witness ==
  /\ pc = "done"
  /\ Alerted(alerts, "threshold")
  /\ Alerted(alerts, "clipped")
  /\ CallIdsOf("resize") # {}

(***************************************************************************)
(* C28: a wait loop is left only by a poll that sees the list ready or by  *)
(* a poll that ends the pass; the pass eventually returns success or       *)
(* terminates, unless from some point on the list stays in an in-progress  *)
(* state forever.                                                          *)
(***************************************************************************)
C28_PassTerminates ==
  /\ [][(pc \in WaitPcs /\ pc' # pc) =>
          \/ plState \in ReadyStates /\ pc' # "exit" /\ polled'
          \/ plState \notin ReadyStates /\ pc' = "exit"]_vars
  /\ \/ <>(pc \in {"done", "exit"})
     \/ <>[](plState \in InProgressStates /\ pc \in WaitPcs)

\* a pass that waited through a modification in progress and then returned
C28_Witness ==
  /\ pc = "done"
  /\ Len(calls) >= 3
  /\ plState = "modify-complete"
  /\ plVersion >= 4

(***************************************************************************)
(* C29: a poll that observes the prefix list in modify-failed ends the     *)
(* pass with one fatal alert, and that alert carries the state message     *)
(* the resource supplies for the failure.                                  *)
(***************************************************************************)
C29_FailureReasonAttached ==
  [][(pc \in WaitPcs /\ plState = "modify-failed" /\ pc' # pc) =>
       /\ pc' = "exit"
       /\ plStateMessage \in StateMessages
       /\ alerts' = Append(alerts, [severity |-> 3, what |-> "modify-failed",
                                    text |-> plStateMessage])]_vars

\* a modification of the pass failed and the next poll reported the reason
C29_Witness ==
  /\ pc = "exit"
  /\ calls # <<>>
  /\ calls[Len(calls)].ok
  /\ alerts # <<>>
  /\ alerts[Len(alerts)].what = "modify-failed"
  /\ alerts[Len(alerts)].text = "internal error"

(***************************************************************************)
(* C30: no step of a pass writes the mappings of the configuration store   *)
(* or changes a prefix list other than the event's pl; every accepted      *)
(* call of the pass lands on pl.                                           *)
(***************************************************************************)
C30_OnlyPlMutated ==
  [][/\ mappings' = mappings
     /\ otherList' = otherList
     /\ (Len(calls') > Len(calls) /\ calls'[Len(calls')].ok) =>
          /\ plState' = "modify-in-progress"
          /\ plPending'.add = calls'[Len(calls')].add
          /\ plPending'.rem = calls'[Len(calls')].rem
          /\ plPending'.maxent = calls'[Len(calls')].maxent]_vars

\* a pass changed the entries of pl in several calls and returned; the rest is
\* as it was
C30_Witness ==
  /\ pc = "done"
  /\ Cardinality(EntryCallIds) >= 2
  /\ \A i \in DOMAIN calls : calls[i].ok
  /\ otherList.Version = 1
  /\ <<"sg", "pl", "region">> \in mappings

(***************************************************************************)
(* C31: one run of the bulk initiator invokes Batch Sync exactly once for  *)
(* every mapping of the configuration store, with that mapping's sg, pl    *)
(* and region as payload, and for nothing that is not a stored mapping.    *)
(***************************************************************************)
PayloadOf(m) == [sg |-> m[1], pl |-> m[2], region |-> m[3]]

C31_OneInvocationPerMapping ==
  /\ \A i \in DOMAIN invocations : \E m \in mappings : invocations[i] = PayloadOf(m)
  /\ \A i, j \in DOMAIN invocations : invocations[i] = invocations[j] => i = j
  /\ dpc = "done" =>
       \A m \in mappings : \E i \in DOMAIN invocations : invocations[i] = PayloadOf(m)

\* a run over three mappings, two of them of the same group, has ended
C31_Witness ==
  /\ dpc = "done"
  /\ Len(invocations) = 3
  /\ \E i, j \in DOMAIN invocations :
       i # j /\ invocations[i].sg = invocations[j].sg

(***************************************************************************)
(* C32: an onboarding run for a (group, region) pair that had its mapping  *)
(* when the run was invoked never creates a prefix list and never returns  *)
(* success; no step removes or replaces a mapping, and the store never     *)
(* holds two mappings for one pair.                                        *)
(***************************************************************************)
ListsBy(run) == {i \in DOMAIN lists : lists[i].by = run}

C32_ExistingMappingRefused ==
  [][/\ ob'.had => ob'.pc # "done" /\ ListsBy(obRuns') = {}
     /\ mappings \subseteq mappings'
     /\ \A m, n \in mappings' : (m[1] = n[1] /\ m[3] = n[3]) => m = n]_vars

(***************************************************************************)
(* C33: when an onboarding run has returned its success message, the       *)
(* entries of the prefix list it created are the addresses it read from    *)
(* the group, whatever their number.                                       *)
(***************************************************************************)
C33_SuccessMeansSynced ==
  ob.pc = "done" =>
    \A i \in ListsBy(obRuns) : lists[i].entries = ToCidrs(ob.cidrs)

(***************************************************************************)
(* C38: when an onboarding run has ended with an error, every prefix list  *)
(* it created has its mapping in the store.                                *)
(***************************************************************************)
C38_NoOrphanList ==
  ob.pc = "exit" =>
    \A i \in ListsBy(obRuns) : \E m \in mappings : m[2] = lists[i].id

(***************************************************************************)
(* C34: no mutating call of a pass adds an address outside the membership  *)
(* D it read or removes an address of D; so once the pass has issued a     *)
(* call, whether or not it aborts later, the /32 set O' of the list has    *)
(* O' \ D within O \ D and D \ O' within D \ O, and the diff a pass would  *)
(* compute from D and O' lies within the diff of this pass.                *)
(***************************************************************************)
C34_AbortLeavesSubDiff ==
  LET D == sgiplist
      O == pliplist
      Onow == StripHostMask(plCidrs)
  IN /\ \A i \in DOMAIN calls :
          /\ calls[i].add \subseteq ToCidrs(D)
          /\ calls[i].rem \cap ToCidrs(D) = {}
     /\ calls # <<>> =>
          /\ (Onow \ D) \subseteq (O \ D)
          /\ (D \ Onow) \subseteq (D \ O)
          /\ ItemsToAdd(D, Onow) \subseteq itemstoadd
          /\ ItemsToRemove(D, Onow) \subseteq itemstoremove

\* a pass that aborted between its pages: part of the diff has landed
C34_Witness ==
  /\ pc = "exit"
  /\ plPending = NoPending
  /\ Len(calls) >= 2
  /\ StripHostMask(plCidrs) # pliplist
  /\ StripHostMask(plCidrs) # sgiplist

(***************************************************************************)
(* C35: with another invocation writing to the same list, an entry call    *)
(* of the pass is accepted only when the list's /32 set is still the set   *)
(* the pass read, changed by the pass's own accepted calls and by nothing  *)
(* else: a diff computed from outdated contents is never applied.          *)
(***************************************************************************)
EntryKinds == {"bulk", "remove", "add"}
\* the step appends an entry call to the history
EntryCallStep ==
  /\ Len(calls') = Len(calls) + 1
  /\ calls'[Len(calls')].kind \in EntryKinds
\* the /32 set the pass takes the list to hold: what it read, changed by the
\* calls it got accepted
OwnView ==
  LET mine == {i \in EntryCallIds : calls[i].ok}
  IN (pliplist \cup StripHostMask(AddedBy(mine))) \ StripHostMask(RemovedBy(mine))

C35_NoStaleDiffApplied ==
  [][(EntryCallStep /\ calls'[Len(calls')].ok) =>
       StripHostMask(plCidrs) = OwnView]_vars

(***************************************************************************)
(* C35, amended: an accepted entry call carries the version the pass read  *)
(* last (with the metadata for the bulk call, after the page's wait for a  *)
(* page call), and that is the list's version at the call; a call sent     *)
(* when the list's version is no longer the one read last is refused and   *)
(* ends the pass.  A change that landed before that read is not detected.  *)
(***************************************************************************)
C35_StaleSinceLastRead ==
  [][EntryCallStep =>
       LET c == calls'[Len(calls')]
           lastRead == IF c.kind = "bulk" THEN plinfo.Version ELSE version
       IN /\ c.ok => (c.ver = lastRead /\ c.ver = c.cur)
          /\ c.cur # lastRead => (~c.ok /\ pc' = "exit" /\ plPending' = plPending)]_vars

\* the first call of the pass was accepted after the other invocation's write
\* had landed and changed the entries the pass had read
C35_Witness ==
  /\ otherWrites >= 1
  /\ calls # <<>>
  /\ calls[1].ok
  /\ calls[1].kind \in EntryKinds
  /\ calls[1].cur > MaxInitVersion
  /\ "entries" \in reads

(***************************************************************************)
(* C36: a capacity-change call requests at least finalSize and more than   *)
(* the capacity the pass observed, clipped or not; and once the resize of  *)
(* a pass has landed, the next pass with the same membership that passes   *)
(* the quota check finds a capacity of at least finalSize and takes the    *)
(* bulk or the paginated branch.                                           *)
(***************************************************************************)
C36_ResizeGrowsThenMutates ==
  /\ \A i \in CallIdsOf("resize") :
       /\ calls[i].maxent >= newpllength
       /\ calls[i].maxent > plinfo.MaxEnt
  /\ (prev.resized /\ QuotaPassed) =>
       /\ plinfo.MaxEnt >= newpllength
       /\ BulkPath(itemstoadd, itemstoremove) \/ PagedPath(itemstoadd, itemstoremove)

(***************************************************************************)
(* C37: the entries of the prefix list whose mask is not /32 are the same  *)
(* after every step; no call carries an entry that is not a /32; the       *)
(* observed set, toAdd and toRemove hold no address taken from such an     *)
(* entry; finalSize is the number of /32 entries the list is to hold, and  *)
(* the pass resizes exactly when the observed capacity is below it.        *)
(***************************************************************************)
NonHost(cidrs) == {c \in cidrs : c[2] # HostMask}

C37_OtherMasksUntouched ==
  [][/\ NonHost(plCidrs') = NonHost(plCidrs)
     /\ \A i \in DOMAIN calls' :
          /\ NonHost(calls'[i].add \cup calls'[i].rem) = {}
          /\ calls'[i].rem \subseteq ToCidrs(pliplist')
     /\ "entries" \in reads' =>
          /\ \A c \in NonHost(plCidrs') :
               c[1] \notin pliplist' \cup itemstoadd' \cup itemstoremove'
          /\ newpllength' = Cardinality((pliplist' \cup itemstoadd') \ itemstoremove')
     /\ (pc = "get_quota" /\ pc' \notin {"get_quota", "exit"}) =>
          (pc' = "pl_resize" <=>
             plinfo.MaxEnt < Cardinality(plCidrs \ NonHost(plCidrs))
                               + Cardinality(itemstoadd) - Cardinality(itemstoremove))
    ]_vars

\* a pass removed /32 entries page by page from a list that also holds another
\* entry, and returned; the removal has landed
C37_Witness ==
  /\ pc = "done"
  /\ NonHost(plCidrs) # {}
  /\ CallIdsOf("remove") # {}
  /\ plPending = NoPending
  /\ plState = "modify-complete"
  /\ StripHostMask(plCidrs) = sgiplist

(***************************************************************************)
(* C39: a log_handler call with terminate set ends the process with a      *)
(* non-zero status and one without does not; a call with sendmessage set   *)
(* publishes the alert and one without does not; this is so for every      *)
(* severity and every log level, which decide the printed prefix only.     *)
(***************************************************************************)
C39_LogLevelOnlyPrefix ==
  \A i \in DOMAIN logs :
    /\ logs[i].exited = logs[i].terminate
    /\ logs[i].exited => logs[i].status # 0
    /\ logs[i].published = logs[i].sendmessage
    /\ logs[i].prefix = "INFO" => (logs[i].severity = 1 /\ logs[i].loglevel <= 1)
    /\ logs[i].prefix = "WARNING" => (logs[i].severity = 2 /\ logs[i].loglevel <= 2)
    /\ logs[i].prefix = "CRITICAL" => (logs[i].severity = 3 /\ logs[i].loglevel <= 3)

\* an info message below the configured level was published and ended the
\* process
C39_Witness ==
  /\ logs # <<>>
  /\ logs[Len(logs)].severity = 1
  /\ logs[Len(logs)].loglevel = 3
  /\ logs[Len(logs)].prefix = "UNKNOWN"
  /\ logs[Len(logs)].published
  /\ logs[Len(logs)].exited

====
